---- MODULE Spec2Model ----
(***************************************************************************)
(* Model of noahantisseril/ChessBot: Engine.minimax (depth-limited minimax *)
(* with alpha-beta pruning), Engine.evaluate_board and the game loop of    *)
(* play_chess.Main.                                                        *)
(*                                                                         *)
(* The python-chess Board the engine works on is modelled by a small       *)
(* one-dimensional chess: squares 1..NSq in a line, white moving towards   *)
(* higher squares.  Pawns step one square forward onto an empty square,    *)
(* knights jump two squares, rooks and queens slide over empty squares,    *)
(* bishops and kings step one square; a move onto an enemy piece captures  *)
(* it; a move that leaves the mover's king attacked is not legal.  Scores  *)
(* are multiplied by Scale (bishop = 3.25).                                *)
(***************************************************************************)
EXTENDS Integers, Sequences, FiniteSets, TLC

\* ----- bounds -----
NSq == 5
MaxPieces == 2
MaxDepth == 3
MaxFrames == 5
MaxPlies == 3

\* ----- program constants -----
Scale == 4
PAWN == 1
KNIGHT == 2
BISHOP == 3
ROOK == 4
QUEEN == 5
KING == 6
PosInf == 1000000
NegInf == -1000000
MateScore == 9999

WHITE == "w"
BLACK == "b"
Colors == {WHITE, BLACK}
PieceTypes == {PAWN, KNIGHT, BISHOP, ROOK, QUEEN, KING}
Squares == 1..NSq

\* python None: for a square without a piece and for "no move"
NoPiece == [type |-> 0, color |-> "none"]
NoMove == [from |-> 0, to |-> 0]

Piece(t, c) == [type |-> t, color |-> c]
Opp(c) == IF c = WHITE THEN BLACK ELSE WHITE

VARIABLES board, color, frames, pc, ret, finished, root, gpc, humanColor, maxDepth

vars == <<board, color, frames, pc, ret, finished, root, gpc, humanColor, maxDepth>>

\* ----- the Board collaborator -----
piece_type_at(b, sq) == b.pieces[sq].type
color_at(b, sq) == b.pieces[sq].color
piece_map(b) == {sq \in Squares : b.pieces[sq] # NoPiece}

Forward(c) == IF c = WHITE THEN 1 ELSE -1

Between(s, t) == {x \in Squares : (s < x /\ x < t) \/ (t < x /\ x < s)}

\* squares the piece on square s could move to, king safety aside
Targets(pieces, s) ==
  LET p == pieces[s]
      cand == IF p.type = PAWN THEN {s + Forward(p.color)}
              ELSE IF p.type = KNIGHT THEN {s - 2, s + 2}
              ELSE IF p.type \in {ROOK, QUEEN}
                   THEN {t \in Squares \ {s} :
                           \A x \in Between(s, t) : pieces[x] = NoPiece}
              ELSE {s - 1, s + 1}
  IN {t \in cand \cap Squares :
        IF p.type = PAWN THEN pieces[t] = NoPiece ELSE pieces[t].color # p.color}

attacked(pieces, sq, by) ==
  \E s \in Squares : /\ pieces[s].color = by
                     /\ pieces[s].type # PAWN
                     /\ sq \in Targets(pieces, s)

king_attacked(pieces, c) ==
  \E k \in Squares : pieces[k] = Piece(KING, c) /\ attacked(pieces, k, Opp(c))

is_check(b) == king_attacked(b.pieces, b.turn)

push(b, m) ==
  [pieces |-> [b.pieces EXCEPT ![m.to] = b.pieces[m.from], ![m.from] = NoPiece],
   turn |-> Opp(b.turn),
   move_stack |-> Append(b.move_stack,
                         [from |-> m.from, to |-> m.to, captured |-> b.pieces[m.to]])]

pop(b) ==
  LET last == b.move_stack[Len(b.move_stack)]
  IN [pieces |-> [b.pieces EXCEPT ![last.from] = b.pieces[last.to],
                                  ![last.to] = last.captured],
      turn |-> Opp(b.turn),
      move_stack |-> SubSeq(b.move_stack, 1, Len(b.move_stack) - 1)]

is_legal(b, m) ==
  /\ m.from \in Squares
  /\ m.to \in Squares
  /\ b.pieces[m.from].color = b.turn
  /\ m.to \in Targets(b.pieces, m.from)
  /\ ~king_attacked(push(b, m).pieces, b.turn)

\* the legal moves in enumeration order: by origin square, then by target
RECURSIVE MovesFrom(_, _)
MovesFrom(b, n) ==
  IF n > NSq * NSq THEN <<>>
  ELSE LET m == [from |-> ((n - 1) \div NSq) + 1, to |-> ((n - 1) % NSq) + 1]
       IN IF is_legal(b, m) THEN <<m>> \o MovesFrom(b, n + 1)
          ELSE MovesFrom(b, n + 1)

legal_moves(b) == MovesFrom(b, 1)

legal_moves_count(b) == Len(legal_moves(b))

is_checkmate(b) == is_check(b) /\ legal_moves_count(b) = 0

\* ----- Engine: evaluation -----
square_score(b, c, square) ==
  LET t == piece_type_at(b, square)
      rv == IF t = PAWN THEN 1 * Scale
            ELSE IF t = KNIGHT THEN 3 * Scale
            ELSE IF t = BISHOP THEN 13
            ELSE IF t = ROOK THEN 5 * Scale
            ELSE IF t = QUEEN THEN 9 * Scale
            ELSE IF t = KING THEN 20 * Scale
            ELSE 0
  IN IF color_at(b, square) # c THEN -1 * rv ELSE rv

\* the bonus decided by the side to move alone
mateOneSided(b, c) ==
  IF legal_moves_count(b) = 0
  THEN IF b.turn = WHITE THEN -MateScore * Scale ELSE MateScore * Scale
  ELSE 0

\* a bonus of the size of a few pieces
mateWeak(b, c) ==
  IF legal_moves_count(b) = 0
  THEN IF b.turn = c THEN -KING * Scale ELSE KING * Scale
  ELSE 0

mate(b, c) ==
  IF legal_moves_count(b) = 0
  THEN IF b.turn = c THEN -MateScore * Scale ELSE MateScore * Scale
  ELSE 0

RECURSIVE SumScores(_, _, _)
SumScores(b, c, sqs) ==
  IF sqs = {} THEN 0
  ELSE LET sq == CHOOSE x \in sqs : TRUE
       IN square_score(b, c, sq) + SumScores(b, c, sqs \ {sq})

evaluate_board(b, c) == SumScores(b, c, piece_map(b)) + mate(b, c)

\* ----- Engine: minimax, one activation record per call -----
Max(a, b) == IF a >= b THEN a ELSE b
Min(a, b) == IF a <= b THEN a ELSE b

\* entry: the board at the call; scores: the scores reported so far by the
\* recursive calls, in the order of moves (both only observe the run)
Frame(depth, alpha, beta, bot_turn, b) ==
  [depth |-> depth, alpha |-> alpha, beta |-> beta, bot_turn |-> bot_turn,
   moves |-> <<>>, i |-> 1, best_value |-> 0, best_move |-> NoMove,
   stop |-> FALSE, entry |-> b, scores |-> <<>>]

Top == frames[Len(frames)]
Callers == SubSeq(frames, 1, Len(frames) - 1)
AfterReturn == IF Len(frames) = 1 THEN "done" ELSE "returned"

terminal(depth, b) == (depth = 0) \/ (legal_moves_count(b) = 0)

\* lines 41-42: depth exhausted or no legal moves
Leaf ==
  /\ pc = "entry"
  /\ terminal(Top.depth, board)
  /\ ret' = [score |-> evaluate_board(board, color), move |-> NoMove]
  /\ finished' = Top
  /\ frames' = Callers
  /\ pc' = AfterReturn
  /\ UNCHANGED <<board, color, root, gpc, humanColor, maxDepth>>

\* the best value starts at 0 instead of -inf / +inf
EnterZero ==
  /\ pc = "entry"
  /\ ~terminal(Top.depth, board)
  /\ frames' = [frames EXCEPT ![Len(frames)] =
                  [@ EXCEPT !.moves = legal_moves(board),
                            !.best_value = 0,
                            !.best_move = NoMove]]
  /\ pc' = "loop"
  /\ UNCHANGED <<board, color, ret, finished, root, gpc, humanColor, maxDepth>>

\* lines 43-46 / 59-60: an interior node lists its moves
Enter ==
  /\ pc = "entry"
  /\ ~terminal(Top.depth, board)
  /\ frames' = [frames EXCEPT ![Len(frames)] =
                  [@ EXCEPT !.moves = legal_moves(board),
                            !.best_value = IF Top.bot_turn THEN NegInf ELSE PosInf,
                            !.best_move = NoMove]]
  /\ pc' = "loop"
  /\ UNCHANGED <<board, color, ret, finished, root, gpc, humanColor, maxDepth>>

\* the loop without its break
more_moves_nobreak(f) == f.i <= Len(f.moves)

more_moves(f) == ~f.stop /\ f.i <= Len(f.moves)

\* lines 48-49 / 62-63: push the next move and call minimax(depth - 1, ...)
PushMove ==
  /\ pc = "loop"
  /\ more_moves(Top)
  /\ Len(frames) < MaxFrames
  /\ board' = push(board, Top.moves[Top.i])
  /\ frames' = Append(frames, Frame(Top.depth - 1, Top.alpha, Top.beta,
                                    ~Top.bot_turn, board'))
  /\ pc' = "entry"
  /\ UNCHANGED <<color, ret, finished, root, gpc, humanColor, maxDepth>>

\* the interpreter's recursion limit: the call raises RecursionError after
\* the push, and nothing catches it
Overflow ==
  /\ pc = "loop"
  /\ more_moves(Top)
  /\ Len(frames) >= MaxFrames
  /\ board' = push(board, Top.moves[Top.i])
  /\ pc' = "overflow"
  /\ UNCHANGED <<color, frames, ret, finished, root, gpc, humanColor, maxDepth>>

\* a tie replaces the best move
betterOrEqual(f, score) ==
  IF f.bot_turn THEN score >= f.best_value ELSE score <= f.best_value

better(f, score) ==
  IF f.bot_turn THEN score > f.best_value ELSE score < f.best_value

\* the cutoff test placed before the comparison with the best value: the
\* score that causes the break is not recorded
updateBreakFirst(f, score, move) ==
  LET a == IF f.bot_turn THEN Max(f.alpha, score) ELSE f.alpha
      b == IF f.bot_turn THEN f.beta ELSE Min(f.beta, score)
      keep == (a >= b) \/ ~better(f, score)
  IN [f EXCEPT !.best_value = IF keep THEN @ ELSE score,
               !.best_move = IF keep THEN @ ELSE move,
               !.alpha = a,
               !.beta = b,
               !.stop = (a >= b),
               !.i = @ + 1,
               !.scores = Append(@, score)]

update(f, score, move) ==
  LET a == IF f.bot_turn THEN Max(f.alpha, score) ELSE f.alpha
      b == IF f.bot_turn THEN f.beta ELSE Min(f.beta, score)
  IN [f EXCEPT !.best_value = IF better(f, score) THEN score ELSE @,
               !.best_move = IF better(f, score) THEN move ELSE @,
               !.alpha = a,
               !.beta = b,
               !.stop = (a >= b),
               !.i = @ + 1,
               !.scores = Append(@, score)]

\* the break taken before the pop
PopMoveBreakFirst ==
  /\ pc = "returned"
  /\ frames' = [frames EXCEPT ![Len(frames)] = update(@, ret.score, @.moves[@.i])]
  /\ board' = IF frames'[Len(frames)].stop THEN board ELSE pop(board)
  /\ pc' = "loop"
  /\ UNCHANGED <<color, ret, finished, root, gpc, humanColor, maxDepth>>

\* lines 50-56 / 64-70: pop the move, keep the better score, narrow the window
PopMove ==
  /\ pc = "returned"
  /\ board' = pop(board)
  /\ frames' = [frames EXCEPT ![Len(frames)] = update(@, ret.score, @.moves[@.i])]
  /\ pc' = "loop"
  /\ UNCHANGED <<color, ret, finished, root, gpc, humanColor, maxDepth>>

\* lines 57 / 71: the loop is over, by exhaustion or by the break
Return ==
  /\ pc = "loop"
  /\ ~more_moves(Top)
  /\ ret' = [score |-> Top.best_value, move |-> Top.best_move]
  /\ finished' = Top
  /\ frames' = Callers
  /\ pc' = AfterReturn
  /\ UNCHANGED <<board, color, root, gpc, humanColor, maxDepth>>

\* ----- a search on its own: Engine(board, maxDepth, color).minimax(...) -----
MinDepth == -1
Windows == {<<NegInf, PosInf>>, <<-4, 4>>}

Kings(pieces, c) == {s \in Squares : pieces[s] = Piece(KING, c)}

InitPieces ==
  {p \in [Squares -> {NoPiece} \cup [type : PieceTypes, color : Colors]] :
     /\ Cardinality({s \in Squares : p[s] # NoPiece}) \in 1..MaxPieces
     /\ \A c \in Colors : Cardinality(Kings(p, c)) <= 1}

\* the side that has just moved is not in check
InitBoards ==
  {b \in [pieces : InitPieces, turn : Colors, move_stack : {<<>>}] :
     ~king_attacked(b.pieces, Opp(b.turn))}

NoRet == [score |-> 0, move |-> NoMove]
Call(depth, w, bot_turn, b) ==
  [depth |-> depth, alpha |-> w[1], beta |-> w[2], bot_turn |-> bot_turn, board |-> b]

Init ==
  /\ board \in InitBoards
  /\ color \in Colors
  /\ \E d \in MinDepth..MaxDepth, w \in Windows, bt \in BOOLEAN :
       /\ root = Call(d, w, bt, board)
       /\ frames = <<Frame(d, w[1], w[2], bt, board)>>
  /\ pc = "entry"
  /\ ret = NoRet
  /\ finished = Frame(0, 0, 0, TRUE, board)
  /\ gpc = "none"
  /\ humanColor = "none"
  /\ maxDepth = 0

Next == Leaf \/ Enter \/ PushMove \/ Overflow \/ PopMove \/ Return

Spec == Init /\ [][Next]_vars

\* ----- play_chess.Main: the game loop -----
StartBoard ==
  [pieces |-> [s \in Squares |->
                 IF s = 1 THEN Piece(KING, WHITE)
                 ELSE IF s = 3 THEN Piece(ROOK, WHITE)
                 ELSE IF s = NSq - 1 THEN Piece(BISHOP, BLACK)
                 ELSE IF s = NSq THEN Piece(KING, BLACK)
                 ELSE NoPiece],
   turn |-> WHITE,
   move_stack |-> <<>>]

\* int(input(...)) accepts every integer
GameDepths == MinDepth..MaxDepth

EngineColor == IF humanColor = "b" THEN WHITE ELSE BLACK

\* lines 30-35: the colour and depth prompts
StartGamePrompt ==
  /\ gpc = "start"
  /\ humanColor' \in {"b", "w"}
  /\ maxDepth' \in GameDepths
  /\ gpc' = "head"
  /\ UNCHANGED <<board, color, frames, pc, ret, finished, root>>

\* lines 37 / 46: the while test holds, the first mover of the round is next
StartGameLoop ==
  /\ gpc = "head"
  /\ ~is_checkmate(board)
  /\ gpc' = IF humanColor = "b" THEN "engine" ELSE "human"
  /\ UNCHANGED <<board, color, frames, pc, ret, finished, root, humanColor, maxDepth>>

\* lines 43-44, 52-57: checkmate ends the loop; board.reset is named but not
\* called, and startGame starts over on the same board
StartGameOver ==
  /\ gpc = "head"
  /\ is_checkmate(board)
  /\ gpc' = "start"
  /\ UNCHANGED <<board, color, frames, pc, ret, finished, root, humanColor, maxDepth>>

\* lines 25-26: Engine(board, maxDepth, color).minimax(maxDepth) is called
PlayEngineMoveCall ==
  /\ gpc = "engine"
  /\ color' = EngineColor
  /\ root' = Call(maxDepth, <<NegInf, PosInf>>, TRUE, board)
  /\ frames' = <<Frame(maxDepth, NegInf, PosInf, TRUE, board)>>
  /\ pc' = "entry"
  /\ gpc' = "thinking"
  /\ UNCHANGED <<board, ret, finished, humanColor, maxDepth>>

\* line 26: board.push(minimax(...)[1]); push(None) raises and nothing catches it
PlayEngineMovePush ==
  /\ gpc = "thinking"
  /\ pc = "done"
  /\ pc' = "idle"
  /\ IF ret.move = NoMove
     THEN /\ gpc' = "crashed"
          /\ board' = board
     ELSE /\ gpc' = IF humanColor = "b" THEN "human" ELSE "head"
          /\ board' = push(board, ret.move)
  /\ UNCHANGED <<color, frames, ret, finished, root, humanColor, maxDepth>>

\* lines 15-19: "undo" pops twice; a pop of the empty stack raises, the bare
\* except catches it and asks again, whatever was popped before
Undo(b) ==
  IF Len(b.move_stack) >= 2 THEN pop(pop(b))
  ELSE IF Len(b.move_stack) = 1 THEN pop(b)
  ELSE b

\* lines 9-22: one answer to the prompt: a legal move, "undo", or an input
\* push_san rejects (the prompt is repeated on the unchanged board)
PlayHumanMove ==
  /\ gpc = "human"
  /\ \/ \E n \in 1..legal_moves_count(board) :
          /\ Len(board.move_stack) < MaxPlies
          /\ board' = push(board, legal_moves(board)[n])
          /\ gpc' = IF humanColor = "b" THEN "head" ELSE "engine"
     \/ /\ board' = Undo(board)
        /\ gpc' = "human"
     \/ /\ board' = board
        /\ gpc' = "human"
  /\ UNCHANGED <<color, frames, pc, ret, finished, root, humanColor, maxDepth>>

GameInit ==
  /\ board = StartBoard
  /\ color = WHITE
  /\ root = Call(0, <<NegInf, PosInf>>, TRUE, StartBoard)
  /\ frames = <<>>
  /\ pc = "idle"
  /\ ret = NoRet
  /\ finished = Frame(0, 0, 0, TRUE, StartBoard)
  /\ gpc = "start"
  /\ humanColor = "none"
  /\ maxDepth = 0

GameNext ==
  \/ StartGamePrompt \/ StartGameLoop \/ StartGameOver
  \/ PlayEngineMoveCall \/ PlayEngineMovePush \/ PlayHumanMove
  \/ Leaf \/ Enter \/ PushMove \/ Overflow \/ PopMove \/ Return

GameSpec == GameInit /\ [][GameNext]_vars

\* ----- the reference: minimax over the whole tree, nothing skipped -----
RECURSIVE Exhaustive(_, _, _, _)
Exhaustive(b, c, depth, bot_turn) ==
  IF terminal(depth, b) THEN evaluate_board(b, c)
  ELSE LET ms == legal_moves(b)
           vals == {Exhaustive(push(b, ms[n]), c, depth - 1, ~bot_turn) : n \in 1..Len(ms)}
       IN IF bot_turn THEN CHOOSE v \in vals : \A w \in vals : v >= w
          ELSE CHOOSE v \in vals : \A w \in vals : v <= w

Returned == pc \in {"returned", "done"}
FullWindow == root.alpha = NegInf /\ root.beta = PosInf
RootDone == pc = "done" /\ FullWindow /\ root.depth >= 0
\* the value of the subtree under the root's n-th move
ChildValue(n) ==
  Exhaustive(push(root.board, finished.moves[n]), color, root.depth - 1, ~root.bot_turn)
\* a call that left its loop through the break with moves still unexamined
CutShort(f) == f.stop /\ f.i <= Len(f.moves)

\* C1: a root call with the window (-inf, +inf) and depth >= 0 returns the
\* score of the exhaustive minimax of the same tree: pruning never changes it.
C1_AlphaBetaExact ==
  RootDone => ret.score = Exhaustive(root.board, color, root.depth, root.bot_turn)

\* a finished root search in which pruning made a child report a score that
\* is not the value of its subtree
C1_Witness ==
  /\ RootDone
  /\ root.depth >= 2
  /\ \E n \in 1..Len(finished.scores) : finished.scores[n] # ChildValue(n)
  /\ ret.score = Exhaustive(root.board, color, root.depth, root.bot_turn)

\* C2: when a call of minimax has returned (root or recursive, any window,
\* either bot_turn, also after a cutoff) the board, move stack included, is
\* the board the call was entered with.
C2_BoardRestored == Returned => board = finished.entry

\* a recursive call that pushed moves, broke out of its loop on alpha >= beta
\* and returned
C2_Witness ==
  /\ pc = "returned"
  /\ CutShort(finished)
  /\ Len(finished.scores) >= 1
  /\ board = finished.entry

\* C3: the move returned is the first, in enumeration order, among the moves
\* whose reported score is the returned score; for a root call with the window
\* (-inf, +inf) it is the first move whose subtree value is the returned score.
C3_FirstBestKept ==
  /\ (Returned /\ Len(finished.scores) >= 1) =>
       \E n \in 1..Len(finished.scores) :
          /\ ret.move = finished.moves[n]
          /\ finished.scores[n] = ret.score
          /\ \A k \in 1..(n - 1) : finished.scores[k] # ret.score
  /\ (RootDone /\ Len(finished.scores) >= 1) =>
       \E n \in 1..Len(finished.moves) :
          /\ ret.move = finished.moves[n]
          /\ ChildValue(n) = ret.score
          /\ \A k \in 1..(n - 1) : ChildValue(k) # ret.score

\* a finished root search where a later move ties with the move returned
C3_Witness ==
  /\ RootDone
  /\ root.depth >= 2
  /\ \E n, k \in 1..Len(finished.moves) :
        /\ n < k
        /\ ret.move = finished.moves[n]
        /\ ChildValue(n) = ret.score
        /\ ChildValue(k) = ret.score

\* C4 (as claimed): a root call with depth <= 0, or on a board without legal
\* moves, returns at once with (evaluate_board(), None): no move is pushed and
\* no recursive call is made.
C4_ImmediateReturn ==
  (root.depth <= 0 \/ legal_moves_count(root.board) = 0) =>
     /\ Len(frames) <= 1
     /\ board = root.board
     /\ pc \in {"entry", "done"}
     /\ pc = "done" => ret = [score |-> evaluate_board(root.board, color), move |-> NoMove]

Material(b, c) == SumScores(b, c, piece_map(b))

\* C5: the score evaluate_board gives a leaf from the engine's point of view
\* is the negation of the score it gives the same board from the other
\* colour's point of view, with and without legal moves on the board.
C5_Antisymmetry ==
  (Returned /\ ret.move = NoMove) =>
     ret.score = -evaluate_board(finished.entry, Opp(color))

\* a leaf without legal moves has been evaluated: the mate bonus is part of
\* the score and flips with the point of view
C5_Witness ==
  /\ Returned
  /\ ret.move = NoMove
  /\ legal_moves_count(board) = 0
  /\ piece_map(board) # {}
  /\ ret.score = -evaluate_board(board, Opp(color))
  /\ ret.score # -Material(board, Opp(color))

\* the root's moves after which the opponent has no legal move
MatingMoves == {n \in 1..Len(finished.moves) :
                  legal_moves_count(push(root.board, finished.moves[n])) = 0}
MateInOne ==
  /\ RootDone
  /\ root.depth >= 2
  /\ root.bot_turn
  /\ root.board.turn = color
  /\ MatingMoves # {}

\* C6 (as claimed): with a mate in 1 on the board the search at depth >= 2
\* returns a score of at least 9999 - epsilon (epsilon below one pawn),
\* whatever the material balance.
C6_MateScoreAtLeast9999 == MateInOne => ret.score > (MateScore - 1) * Scale

\* C6 (amended): the score returned is at least 9999 plus the engine's
\* material balance after a mating move, and it is above the evaluation of
\* every position a non-mating move leads to.
C6_MatePreferred ==
  MateInOne =>
    \A n \in 1..Len(finished.moves) :
       LET after == push(root.board, finished.moves[n])
       IN IF n \in MatingMoves
          THEN ret.score >= MateScore * Scale + Material(after, color)
          ELSE ret.score > evaluate_board(after, color)

\* the engine mates although it is behind in material, and it had another
\* move that does not mate
C6_Witness ==
  /\ MateInOne
  /\ ret.score < MateScore * Scale
  /\ \E n \in 1..Len(finished.moves) : n \notin MatingMoves
  /\ \E n \in MatingMoves : ret.move = finished.moves[n]

\* C7: a call returns no move exactly when it is a leaf (depth zero or no
\* legal moves); otherwise it returns one of the node's legal moves, with the
\* score the recursive call reported for it, the extremal one among the
\* scores reported.
C7_SearchResult ==
  Returned =>
    IF terminal(finished.depth, finished.entry)
    THEN ret.move = NoMove /\ finished.scores = <<>>
    ELSE /\ ret.move # NoMove
         /\ finished.moves = legal_moves(finished.entry)
         /\ \E n \in 1..Len(finished.scores) :
               /\ ret.move = finished.moves[n]
               /\ ret.score = finished.scores[n]
         /\ \A k \in 1..Len(finished.scores) :
               IF finished.bot_turn THEN finished.scores[k] <= ret.score
               ELSE finished.scores[k] >= ret.score

\* an interior call has returned a move that is not the first one it examined
C7_Witness ==
  /\ Returned
  /\ ~terminal(finished.depth, finished.entry)
  /\ Len(finished.scores) >= 2
  /\ ret.move # finished.moves[1]
  /\ \E n \in 2..Len(finished.scores) :
        ret.move = finished.moves[n] /\ ret.score = finished.scores[n]

Pushed == Len(board.move_stack) - Len(root.board.move_stack)
\* the level of the call that is running or, at "returned", of the call that
\* has just returned and whose move is still on the board
Level == IF pc = "done" THEN 0
         ELSE IF pc = "returned" THEN Len(frames)
         ELSE Len(frames) - 1

NestingState ==
  root.depth >= 0 =>
    /\ Pushed = Level
    /\ Pushed <= root.depth
    /\ Len(frames) <= root.depth + 1
    /\ pc # "overflow"

NestingStep ==
  root.depth >= 0 =>
    /\ Len(board'.move_stack) < Len(board.move_stack) =>
         /\ board'.move_stack = SubSeq(board.move_stack, 1, Len(board.move_stack) - 1)
         /\ board' = frames'[Len(frames')].entry
    /\ Len(board'.move_stack) > Len(board.move_stack) =>
         ~(Top.i > 1 /\ Top.alpha >= Top.beta)

\* C8: in a search of depth d >= 0 the moves pushed and not yet popped are as
\* many as the recursion level and never more than d (at most d + 1 calls are
\* active), a pop restores the board of before the latest push, and a node
\* pushes no move once it has seen alpha >= beta.
C8_PushPopNesting == []NestingState /\ [][NestingStep]_vars

\* a node below the root has seen alpha >= beta with moves left, at the
\* deepest level the search allows
C8_Witness ==
  /\ root.depth >= 2
  /\ pc = "loop"
  /\ CutShort(Top)
  /\ Pushed = root.depth - 1
  /\ Len(frames) = root.depth

\* C9 (as claimed): playEngineMove always calls minimax with the engine's
\* colour to move, and an "undo" answer removes two plies or none.
C9_EngineTurnParity ==
  /\ [](gpc = "engine" => board.turn = EngineColor)
  /\ [][(gpc = "human" /\ gpc' = "human") =>
          Len(board'.move_stack) \in {Len(board.move_stack),
                                      Len(board.move_stack) - 2}]_vars

\* C10 (as claimed): the engine is asked to move only with depth >= 1 on a
\* board with a legal move, so the move it pushes is never None; the human is
\* asked to move only on a board with a legal move.
C10_MoveAvailable ==
  /\ gpc = "engine" => (legal_moves_count(board) > 0 /\ maxDepth >= 1)
  /\ gpc = "human" => legal_moves_count(board) > 0
  /\ gpc # "crashed"

====
